---- MODULE Spec2Model ----
(***************************************************************************)
(* A model of scripts/cleanup-nodes.py: the k3s node cleanup tool.         *)
(*                                                                         *)
(* One run of main() is a state machine.  The run is cut at its blocking   *)
(* external interactions: reading cluster.json, `kubectl get nodes`, the   *)
(* confirmation prompt, `kubectl drain`, `kubectl delete node` and each    *)
(* ssh command.  The inputs of a run (the content of cluster.json, the     *)
(* answer of kubectl, the --dry-run flag) are chosen in Init; the answer   *)
(* typed at the prompt and the exit status of each mutating command are    *)
(* chosen when the run gets there.  A dry run waits for no process: what   *)
(* it prints in place of a node's three ssh commands is one step.          *)
(*                                                                         *)
(* Environment assumptions: the kubectl and ssh binaries can be started    *)
(* (subprocess.run raises nothing but CalledProcessError) and every        *)
(* external call returns.                                                  *)
(***************************************************************************)
EXTENDS Integers, Sequences, FiniteSets, TLC

\* Longest `nodes` list of cluster.json and longest `items` list of kubectl.
MaxExpected == 2
MaxActual == 2

\* Node names the inputs are drawn from: no "nuc" prefix, a signed suffix,
\* the one-digit suffix of the documented scenario, a non-numeric suffix.
NodeNames == {"node1", "nuc-3", "nuc3", "nucx"}

\* What the operator may type at the prompt.
Responses == {"y", "Y", "n", "N", "yes", ""}

(***************************************************************************)
(* Python strings.                                                         *)
(***************************************************************************)

\* The characters of the model in ascending code point order.
CodeOrder == " +-.0123456789ABCDEFGHIJKLMNOPQRSTUVWXYZ_abcdefghijklmnopqrstuvwxyz"
Digits == "0123456789"
UpperCase == "ABCDEFGHIJKLMNOPQRSTUVWXYZ"
LowerCase == "abcdefghijklmnopqrstuvwxyz"

Char(s, i) == SubSeq(s, i, i)

\* The place of each character in that order.
RankTable ==
    [c \in {Char(CodeOrder, i) : i \in 1..Len(CodeOrder)} |->
        CHOOSE i \in 1..Len(CodeOrder) : Char(CodeOrder, i) = c]

Rank(c) == RankTable[c]

\* a < b on str: lexicographic by code point, a proper prefix is smaller.
RECURSIVE StrLess(_, _)
StrLess(a, b) ==
    IF b = "" THEN FALSE
    ELSE IF a = "" THEN TRUE
    ELSE IF Head(a) = Head(b) THEN StrLess(Tail(a), Tail(b))
    ELSE Rank(Head(a)) < Rank(Head(b))

\* sorted(S) for a set of str.
RECURSIVE sorted(_)
sorted(S) ==
    IF S = {} THEN <<>>
    ELSE LET m == CHOOSE x \in S : \A y \in S \ {x} : StrLess(x, y)
         IN  <<m>> \o sorted(S \ {m})

LowerChar(c) ==
    IF \E i \in 1..Len(UpperCase) : Char(UpperCase, i) = c
    THEN Char(LowerCase, CHOOSE i \in 1..Len(UpperCase) : Char(UpperCase, i) = c)
    ELSE c

\* str.lower()
RECURSIVE lower(_)
lower(s) == IF s = "" THEN "" ELSE LowerChar(Head(s)) \o lower(Tail(s))

\* str.startswith(prefix)
startswith(s, prefix) ==
    Len(s) >= Len(prefix) /\ SubSeq(s, 1, Len(prefix)) = prefix

IsDigit(c) == \E i \in 1..Len(Digits) : Char(Digits, i) = c
DigitVal(c) == (CHOOSE i \in 1..Len(Digits) : Char(Digits, i) = c) - 1

RECURSIVE LStrip(_)
LStrip(s) == IF s # "" /\ Head(s) = " " THEN LStrip(Tail(s)) ELSE s
RECURSIVE RStrip(_)
RStrip(s) ==
    IF s # "" /\ Char(s, Len(s)) = " " THEN RStrip(SubSeq(s, 1, Len(s) - 1)) ELSE s

\* The digit part of an int literal: digits, single underscores between them.
RECURSIVE DigitsOK(_)
DigitsOK(s) ==
    /\ s # ""
    /\ IsDigit(Head(s))
    /\ \/ Len(s) = 1
       \/ /\ Len(s) >= 2
          /\ IF Char(s, 2) = "_"
             THEN Len(s) >= 3 /\ DigitsOK(SubSeq(s, 3, Len(s)))
             ELSE DigitsOK(Tail(s))

RECURSIVE DigitsValue(_, _)
DigitsValue(s, acc) ==
    IF s = "" THEN acc
    ELSE IF Head(s) = "_" THEN DigitsValue(Tail(s), acc)
    ELSE DigitsValue(Tail(s), 10 * acc + DigitVal(Head(s)))

\* int(s) for a str: surrounding whitespace is stripped, one optional sign,
\* then the digit part.  ok = FALSE stands for ValueError.
PyInt(s) ==
    LET t == RStrip(LStrip(s))
        signed == t # "" /\ Head(t) \in {"+", "-"}
        body == IF signed THEN Tail(t) ELSE t
    IN  IF DigitsOK(body)
        THEN [ok |-> TRUE,
              val |-> IF signed /\ Head(t) = "-"
                      THEN 0 - DigitsValue(body, 0)
                      ELSE DigitsValue(body, 0)]
        ELSE [ok |-> FALSE, val |-> 0]

RECURSIVE NatStr(_)
NatStr(n) ==
    IF n < 10 THEN Char(Digits, n + 1)
    ELSE NatStr(n \div 10) \o Char(Digits, (n % 10) + 1)

\* str(n) for an int, as an f-string formats it.
PyStr(n) == IF n < 0 THEN "-" \o NatStr(0 - n) ELSE NatStr(n)

(***************************************************************************)
(* The IP resolver.                                                        *)
(***************************************************************************)

base_ip == "192.168.1."
IpOffset == 140
NodePrefix == "nuc"

\* node[3:] of a name that starts with "nuc"
NodeSuffix(node) == SubSeq(node, Len(NodePrefix) + 1, Len(node))

\* The names get_node_ip gives an address: the try block raises nothing.
Resolvable(node) == startswith(node, NodePrefix) /\ PyInt(NodeSuffix(node)).ok

NodeIp(node) == base_ip \o PyStr(IpOffset + PyInt(NodeSuffix(node)).val)

get_node_ip(removed_nodes) ==
    [node \in {n \in removed_nodes : Resolvable(n)} |-> NodeIp(node)]

(***************************************************************************)
(* The inputs of a run.                                                    *)
(***************************************************************************)

RECURSIVE SeqsUpTo(_, _)
SeqsUpTo(S, n) ==
    IF n = 0 THEN {<<>>}
    ELSE LET shorter == SeqsUpTo(S, n - 1)
         IN  shorter \cup {Append(q, x) : q \in shorter, x \in S}

Range(q) == {q[i] : i \in 1..Len(q)}

\* A record of the `nodes` list: with a name, or without the 'name' key.
NodeRecords ==
    {[has_name |-> TRUE, name |-> n] : n \in NodeNames}
        \cup {[has_name |-> FALSE, name |-> ""]}

\* cluster.json: absent, not JSON, an object without 'nodes', or an object
\* with a `nodes` list.
ConfigFiles ==
    {[kind |-> k, nodes |-> <<>>] : k \in {"missing", "invalid_json", "no_nodes_key"}}
        \cup {[kind |-> "object", nodes |-> q] : q \in SeqsUpTo(NodeRecords, MaxExpected)}

\* `kubectl get nodes -o json`: a non-zero exit status, an output that is not
\* JSON, a JSON object without 'items', or a JSON object with `items`, in
\* which a cluster lists each of its nodes once.
KubectlAnswers ==
    {[kind |-> k, items |-> <<>>] : k \in {"nonzero_exit", "not_json", "no_items"}}
        \cup {[kind |-> "object", items |-> q] :
                 q \in {r \in SeqsUpTo(NodeNames, MaxActual) :
                           \A i, j \in 1..Len(r) : r[i] = r[j] => i = j}}

commands ==
    << "sudo systemctl stop k3s-agent",
       "sudo systemctl disable k3s-agent",
       "sudo rm -f /etc/rancher/k3s/agent-token" >>

VARIABLES
    cfg,              \* input: the content of cluster.json
    kube,             \* input: what `kubectl get nodes -o json` answers
    dry_run,          \* input: args.dry_run
    pc,               \* where main() is
    expected_nodes,   \* main's expected_nodes
    actual_nodes,     \* main's actual_nodes
    nodes_to_remove,  \* main's nodes_to_remove
    node_ips,         \* main's node_ips
    plan,             \* the printed cleanup plan: <<node, address text>> lines
    printed,          \* tags of the other messages printed so far
    response,         \* what input() returned, <<>> before it did
    queue,            \* the nodes the reconciler loop has yet to start
    node_name,        \* the loop variable
    cmd_idx,          \* the command stop_k3s_on_node is at
    trace,            \* the steps taken, in order; exec = a process was run
    first_failure,    \* index in trace of the first failed command, 0 if none
    raised,           \* the uncaught exception that ended the run, "" if none
    exit_code         \* the exit status, meaningful once pc = "exit"

vars == <<cfg, kube, dry_run, pc, expected_nodes, actual_nodes, nodes_to_remove,
          node_ips, plan, printed, response, queue, node_name, cmd_idx,
          trace, first_failure, raised, exit_code>>

inputs == <<cfg, kube, dry_run>>

Init ==
    /\ cfg \in ConfigFiles
    /\ kube \in KubectlAnswers
    /\ dry_run \in BOOLEAN
    /\ pc = "load"
    /\ expected_nodes = {}
    /\ actual_nodes = {}
    /\ nodes_to_remove = {}
    /\ node_ips = << >>
    /\ plan = <<>>
    /\ printed = {"banner"}
    /\ response = <<>>
    /\ queue = <<>>
    /\ node_name = ""
    /\ cmd_idx = 1
    /\ trace = <<>>
    /\ first_failure = 0
    /\ raised = ""
    /\ exit_code = 0

(***************************************************************************)
(* The steps of main().                                                    *)
(***************************************************************************)

Step(op, node, ip, cmd, exec) ==
    [op |-> op, node |-> node, ip |-> ip, cmd |-> cmd, exec |-> exec]

\* Mutant of ConfigLoads: records without 'name' are passed over.
ConfigLoads_SkipsNameless(c) == c.kind = "object"

\* load_cluster_config() and the set comprehension over config['nodes']
\* raise nothing.
ConfigLoads(c) ==
    c.kind = "object" /\ \A i \in 1..Len(c.nodes) : c.nodes[i].has_name

ExpectedOf(c) == {c.nodes[i].name : i \in 1..Len(c.nodes)}

\* Lines 127-134: the expected set, or the fatal error.
LoadConfig ==
    /\ pc = "load"
    /\ IF ConfigLoads(cfg)
       THEN /\ expected_nodes' = ExpectedOf(cfg)
            /\ printed' = printed \cup {"expected"}
            /\ pc' = "inspect"
            /\ exit_code' = exit_code
       ELSE /\ expected_nodes' = expected_nodes
            /\ printed' = printed \cup {"load_failed"}
            /\ pc' = "exit"
            /\ exit_code' = 1
    /\ UNCHANGED <<inputs, cmd_idx, actual_nodes, nodes_to_remove, node_ips, plan,
                   response, queue, node_name, trace, first_failure,
                   raised>>

\* get_k3s_nodes(): the set it returns, or the exception that leaves it.
\* CalledProcessError and JSONDecodeError are caught; the KeyError of
\* nodes_data['items'] is not.
get_k3s_nodes(answer) ==
    CASE answer.kind = "nonzero_exit" ->
            [raised |-> "", ret |-> {}, msg |-> "list_failed"]
      [] answer.kind = "not_json" ->
            [raised |-> "", ret |-> {}, msg |-> "parse_failed"]
      [] answer.kind = "no_items" ->
            [raised |-> "KeyError", ret |-> {}, msg |-> "traceback"]
      [] answer.kind = "object" ->
            [raised |-> "", ret |-> Range(answer.items), msg |-> "listed"]

\* Lines 136-142: the actual set, or the fatal error.
GetNodes ==
    /\ pc = "inspect"
    /\ trace' = Append(trace, Step("get_nodes", "", "", "", TRUE))
    /\ LET r == get_k3s_nodes(kube)
       IN  IF r.raised # ""
           THEN /\ raised' = r.raised
                /\ actual_nodes' = actual_nodes
                /\ printed' = printed \cup {r.msg}
                /\ pc' = "exit"
                /\ exit_code' = 1
           ELSE /\ raised' = raised
                /\ actual_nodes' = r.ret
                /\ IF r.ret = {}
                   THEN /\ printed' = printed \cup {r.msg, "no_nodes"}
                        /\ pc' = "exit"
                        /\ exit_code' = 1
                   ELSE /\ printed' = printed \cup {r.msg, "actual"}
                        /\ pc' = "plan"
                        /\ exit_code' = exit_code
    /\ UNCHANGED <<inputs, cmd_idx, expected_nodes, nodes_to_remove, node_ips, plan,
                   response, queue, node_name, first_failure>>

\* Mutant of SetDifference: the subtraction is taken the wrong way round.
SetDifference_Swapped(actual, expected) == expected \ actual

\* Line 145.
SetDifference(actual, expected) == actual \ expected

\* Lines 158-160: one plan entry per node, in sorted order.
PlanLines(to_remove, ips) ==
    LET order == sorted(to_remove)
    IN  [i \in 1..Len(order) |->
            <<order[i],
              IF order[i] \in DOMAIN ips THEN ips[order[i]] ELSE "IP unknown">>]

\* Mutant of LoopOrder: the loop runs over every node of the cluster.
LoopOrder_AllActual(to_remove) == sorted(actual_nodes)

\* Mutant of LoopOrder: the loop takes the set in descending order.
RECURSIVE Reverse(_)
Reverse(q) == IF q = <<>> THEN <<>> ELSE Append(Reverse(Tail(q)), Head(q))
LoopOrder_Descending(to_remove) == Reverse(sorted(to_remove))

\* Line 179: the order in which the reconciler loop takes the nodes.
LoopOrder(to_remove) == sorted(to_remove)

\* The loop takes its next node, or is over.
Advance(order) ==
    IF order = <<>>
    THEN pc' = "finish" /\ node_name' = "" /\ queue' = <<>>
    ELSE pc' = "drain" /\ node_name' = Head(order) /\ queue' = Tail(order)

\* Lines 144-172, up to the prompt: the removal set, the addresses, the plan.
Plan ==
    /\ pc = "plan"
    /\ nodes_to_remove' = SetDifference(actual_nodes, expected_nodes)
    /\ IF nodes_to_remove' = {}
       THEN /\ printed' = printed \cup {"nothing_to_clean"}
            /\ pc' = "exit"
            /\ UNCHANGED <<node_ips, plan, queue, node_name>>
       ELSE /\ node_ips' = get_node_ip(nodes_to_remove')
            /\ plan' = PlanLines(nodes_to_remove', node_ips')
            /\ IF dry_run
               THEN /\ printed' = printed \cup {"nodes_to_remove", "plan", "dry_run_mode"}
                    /\ Advance(LoopOrder(nodes_to_remove'))
               ELSE /\ printed' = printed \cup {"nodes_to_remove", "plan", "confirm_warning"}
                    /\ pc' = "prompt"
                    /\ UNCHANGED <<queue, node_name>>
    /\ UNCHANGED <<inputs, cmd_idx, expected_nodes, actual_nodes, response,
                   trace, first_failure, raised, exit_code>>

\* Mutant of Affirmative: any answer that starts with y or Y is taken.
Affirmative_Prefix(answer) == startswith(lower(answer), "y")

\* Line 174: the answer that lets the run proceed.
Affirmative(answer) == lower(answer) = "y"

\* Lines 173-176: input() returns a line.
Prompt ==
    /\ pc = "prompt"
    /\ \E r \in Responses :
          /\ response' = <<r>>
          /\ IF Affirmative(r)
             THEN /\ Advance(LoopOrder(nodes_to_remove))
                  /\ printed' = printed
             ELSE /\ printed' = printed \cup {"cancelled"}
                  /\ pc' = "exit"
                  /\ UNCHANGED <<queue, node_name>>
    /\ UNCHANGED <<inputs, cmd_idx, expected_nodes, actual_nodes, nodes_to_remove,
                   node_ips, plan, trace, first_failure, raised,
                   exit_code>>

\* Line 173: standard input is at its end, input() raises EOFError.
PromptEOF ==
    /\ pc = "prompt"
    /\ raised' = "EOFError"
    /\ printed' = printed \cup {"traceback"}
    /\ pc' = "exit"
    /\ exit_code' = 1
    /\ UNCHANGED <<inputs, cmd_idx, expected_nodes, actual_nodes, nodes_to_remove,
                   node_ips, plan, response, queue, node_name, trace,
                   first_failure>>

\* Mutant of delete_node_runs: the dry_run test is lost.
delete_node_runs_Always(dry) == TRUE

\* Lines 45, 62, 91: whether the function runs its command.
drain_node_runs(dry) == ~dry
delete_node_runs(dry) == ~dry
stop_k3s_runs(dry) == ~dry

\* The exit statuses a step can meet: a command that is not run cannot fail.
Outcomes(runs) == IF runs THEN BOOLEAN ELSE {TRUE}

Record(step, ok) ==
    /\ trace' = Append(trace, step)
    /\ first_failure' = IF ~ok /\ first_failure = 0 THEN Len(trace) + 1
                        ELSE first_failure

\* Mutant of after_drain: a failed drain skips the delete.
after_drain_SkipsDelete(ok) == IF ok THEN "delete" ELSE "stop"

\* Lines 183-184: where main goes after drain_node returned ok.
after_drain(ok) == "delete"

\* Lines 187-188: where main goes after delete_node returned ok.
after_delete(ok) == "stop"

\* Lines 41-56 and 183-184.
Drain ==
    /\ pc = "drain"
    /\ \E ok \in Outcomes(drain_node_runs(dry_run)) :
          /\ Record(Step("drain", node_name, "", "", drain_node_runs(dry_run)), ok)
          /\ pc' = after_drain(ok)
    /\ UNCHANGED <<inputs, cmd_idx, expected_nodes, actual_nodes, nodes_to_remove,
                   node_ips, plan, printed, response, queue, node_name, raised,
                   exit_code>>

\* Lines 58-73 and 187-188.
Delete ==
    /\ pc = "delete"
    /\ \E ok \in Outcomes(delete_node_runs(dry_run)) :
          /\ Record(Step("delete", node_name, "", "", delete_node_runs(dry_run)), ok)
          /\ pc' = after_delete(ok)
    /\ UNCHANGED <<inputs, cmd_idx, expected_nodes, actual_nodes, nodes_to_remove,
                   node_ips, plan, printed, response, queue, node_name, raised,
                   exit_code>>

\* Mutant of next_command: the first failure ends the sequence.
next_command_ShortCircuit(idx, ok) == IF ok THEN idx + 1 ELSE Len(commands) + 1

\* Lines 85-100: the command stop_k3s_on_node takes after command idx.
next_command(idx, ok) == idx + 1

\* Lines 85-93 with dry_run: the prints stop_k3s_on_node makes from command
\* idx on; no process is waited for between them.
RECURSIVE stop_k3s_on_node_dry(_, _, _)
stop_k3s_on_node_dry(node, node_ip, idx) ==
    IF idx > Len(commands) THEN <<>>
    ELSE <<Step("ssh", node, node_ip, commands[idx], FALSE)>>
            \o stop_k3s_on_node_dry(node, node_ip, next_command(idx, TRUE))

\* Lines 191-194 and 85-100 in a real run: stop_k3s_on_node runs command
\* cmd_idx over ssh and waits for it; after the last one main takes the
\* next node.
RemoteCommand ==
    /\ pc = "stop"
    /\ node_name \in DOMAIN node_ips
    /\ stop_k3s_runs(dry_run)
    /\ \E ok \in Outcomes(TRUE) :
          /\ Record(Step("ssh", node_name, node_ips[node_name],
                         commands[cmd_idx], TRUE), ok)
          /\ LET nxt == next_command(cmd_idx, ok)
             IN  IF nxt <= Len(commands)
                 THEN cmd_idx' = nxt /\ UNCHANGED <<pc, queue, node_name>>
                 ELSE cmd_idx' = 1 /\ Advance(queue)
    /\ UNCHANGED <<inputs, expected_nodes, actual_nodes, nodes_to_remove,
                   node_ips, plan, printed, response, raised, exit_code>>

\* Lines 191-194 and 85-93 in a dry run: stop_k3s_on_node prints the three
\* commands and returns.
RemoteStopDryRun ==
    /\ pc = "stop"
    /\ node_name \in DOMAIN node_ips
    /\ ~stop_k3s_runs(dry_run)
    /\ trace' = trace \o stop_k3s_on_node_dry(node_name, node_ips[node_name], 1)
    /\ Advance(queue)
    /\ UNCHANGED <<inputs, cmd_idx, expected_nodes, actual_nodes,
                   nodes_to_remove, node_ips, plan, printed, response,
                   first_failure, raised, exit_code>>

\* Lines 195-196: no address, no service stop.
SkipStop ==
    /\ pc = "stop"
    /\ node_name \notin DOMAIN node_ips
    /\ trace' = Append(trace, Step("skip", node_name, "", "", FALSE))
    /\ Advance(queue)
    /\ UNCHANGED <<inputs, cmd_idx, expected_nodes, actual_nodes, nodes_to_remove,
                   node_ips, plan, printed, response, first_failure, raised,
                   exit_code>>

\* Lines 198-205: the summary.
Finish ==
    /\ pc = "finish"
    /\ printed' = printed \cup
          {IF dry_run THEN "dry_run_summary" ELSE "success_summary", "next_steps"}
    /\ pc' = "exit"
    /\ UNCHANGED <<inputs, cmd_idx, expected_nodes, actual_nodes, nodes_to_remove,
                   node_ips, plan, response, queue, node_name, trace,
                   first_failure, raised, exit_code>>

Next ==
    \/ LoadConfig
    \/ GetNodes
    \/ Plan
    \/ Prompt
    \/ PromptEOF
    \/ Drain
    \/ Delete
    \/ RemoteCommand
    \/ RemoteStopDryRun
    \/ SkipStop
    \/ Finish

Spec == Init /\ [][Next]_vars

\* The listing is in ascending order of the names, each name once.
Ascending(names) ==
    \A i \in 1..(Len(names) - 1) : StrLess(names[i], names[i + 1])

\* The runs whose two listings are in ascending order: what the loop does
\* depends on the two sets alone.
FairInit ==
    /\ Init
    /\ Ascending(kube.items)
    /\ Ascending([i \in 1..Len(cfg.nodes) |-> cfg.nodes[i].name])

\* Every external call returns and the interpreter runs on.
FairSpec == FairInit /\ [][Next]_vars /\ WF_vars(Next)

(***************************************************************************)
(* What the properties speak of.                                           *)
(***************************************************************************)

\* E: the names of the membership file, whatever their order and number.
DeclaredNames ==
    {cfg.nodes[i].name : i \in {j \in 1..Len(cfg.nodes) : cfg.nodes[j].has_name}}

\* A: the names the cluster returned, whatever their order.
ListedNames == {kube.items[i] : i \in 1..Len(kube.items)}

\* The membership file cannot be read or parsed.
ConfigUnusable ==
    \/ cfg.kind \in {"missing", "invalid_json", "no_nodes_key"}
    \/ \E i \in 1..Len(cfg.nodes) : ~cfg.nodes[i].has_name

\* The steps of the reconciler loop, and those that ran a command.
LoopSteps == {i \in 1..Len(trace) : trace[i].op \in {"drain", "delete", "ssh", "skip"}}
MutatingCalls == {i \in LoopSteps : trace[i].exec}
ApiCalls == {i \in 1..Len(trace) : trace[i].op = "get_nodes"}

\* main got past line 145.
DifferenceTaken == pc \in {"prompt", "drain", "delete", "stop", "finish"}
                      \/ "nothing_to_clean" \in printed
                      \/ "nodes_to_remove" \in printed

\* C1: for every expected set E and non-empty actual set A the removal set
\* is A - E whatever the order of the listings, it is empty iff A is a subset
\* of E, and when it is empty the run exits with code 0 having printed no
\* plan, shown no prompt and taken no step on any node.
C1_RemovalSetIsDifference ==
    /\ (pc = "exit" /\ ~ConfigUnusable /\ kube.kind = "object" /\ ListedNames # {})
          => DifferenceTaken
    /\ DifferenceTaken =>
          /\ nodes_to_remove = ListedNames \ DeclaredNames
          /\ (nodes_to_remove = {}) <=> (ListedNames \subseteq DeclaredNames)
          /\ nodes_to_remove = {} =>
                /\ pc = "exit" /\ exit_code = 0 /\ raised = ""
                /\ plan = <<>> /\ "plan" \notin printed
                /\ response = <<>> /\ "confirm_warning" \notin printed
                /\ LoopSteps = {}

\* Two nodes listed in one order by the cluster and in the other order by
\* the membership file: nothing to clean up.
C1_Witness ==
    /\ pc = "exit"
    /\ "nothing_to_clean" \in printed
    /\ Len(kube.items) = 2 /\ Len(cfg.nodes) = 2
    /\ kube.items[1] # kube.items[2]
    /\ cfg.nodes[1].name = kube.items[2]
    /\ cfg.nodes[2].name = kube.items[1]

\* C2: in every state of every run, dry or real, whatever the external
\* calls answer, each drain, delete, remote command or skip is for a node
\* of actual - expected, never for a node named in the membership file.
C2_ExpectedNeverTouched ==
    \A i \in LoopSteps :
        /\ trace[i].node \notin DeclaredNames
        /\ trace[i].node \in ListedNames \ DeclaredNames

\* A real run that changed the cluster although the membership file names a
\* node the cluster has.
C2_Witness ==
    /\ pc = "exit"
    /\ DeclaredNames \cap ListedNames # {}
    /\ \E i \in MutatingCalls : trace[i].op = "delete"

\* C3: with --dry-run no drain, delete or ssh command is ever run; and the
\* removal set and the printed plan are determined by the expected and the
\* actual set alone, the same in a dry and in a real run.
C3_DryRunChangesNothing ==
    /\ dry_run => MutatingCalls = {}
    /\ plan # <<>> =>
          LET R == ListedNames \ DeclaredNames
          IN  /\ nodes_to_remove = R
              /\ plan = PlanLines(R, get_node_ip(R))
    /\ (DifferenceTaken /\ ListedNames \ DeclaredNames # {}) => plan # <<>>

\* A dry run that went through drain, delete and the three remote commands
\* of a node and printed its summary.
C3_Witness ==
    /\ dry_run
    /\ pc = "exit"
    /\ "dry_run_summary" \in printed
    /\ \E i \in LoopSteps : trace[i].op = "ssh" /\ trace[i].cmd = commands[3]
    /\ \E i \in LoopSteps : trace[i].op = "delete"

\* The affirmative tokens.
Yes == {"y", "Y"}

\* C4: in a real run, an answer other than an affirmative token means that
\* no node is ever drained, deleted or remote-stopped and that the run exits
\* without the success summary; and no node is touched before the prompt was
\* answered affirmatively.
C4_PromptGatesTheLoop ==
    /\ (response # <<>> /\ response[1] \notin Yes) =>
          /\ LoopSteps = {}
          /\ pc = "exit"
          /\ "success_summary" \notin printed
    /\ raised = "EOFError" => LoopSteps = {} /\ "success_summary" \notin printed
    /\ (~dry_run /\ (LoopSteps # {} \/ pc \in {"drain", "delete", "stop", "finish"}
                     \/ "success_summary" \in printed)) =>
          response # <<>> /\ response[1] \in Yes

\* The operator typed "yes", which is not the token: the run is cancelled.
C4_Witness ==
    /\ response = <<"yes">>
    /\ pc = "exit"
    /\ nodes_to_remove # {}
    /\ "cancelled" \in printed

\* C6: when the membership file is missing, is not JSON, has no 'nodes' or
\* holds a record without 'name', the run exits with a non-zero code, no
\* cluster call and no remote command is made, and no expected set is used.
C6_ConfigFailureIsFatal ==
    (ConfigUnusable /\ pc # "load") =>
        /\ pc = "exit"
        /\ exit_code # 0
        /\ trace = <<>>
        /\ expected_nodes = {}
        /\ "load_failed" \in printed

\* A file whose first record has a name and whose second has none.
C6_Witness ==
    /\ pc = "exit"
    /\ Len(cfg.nodes) = 2
    /\ cfg.nodes[1].has_name
    /\ ~cfg.nodes[2].has_name
    /\ kube.kind = "object" /\ ListedNames # {}

\* C5: get_k3s_nodes returns the empty set on any failure of the list call
\* (a process error or a malformed answer), and whenever it returns the
\* empty set the run exits with a non-zero code, without a removal set and
\* without a step on any node.
C5_InspectorEmptyOnAnyFailure ==
    /\ (ApiCalls # {} /\ kube.kind # "object") =>
          /\ raised = ""
          /\ actual_nodes = {}
          /\ "no_nodes" \in printed
    /\ (ApiCalls # {} /\ raised = "" /\ actual_nodes = {}) =>
          /\ pc = "exit"
          /\ exit_code # 0
          /\ ~DifferenceTaken
          /\ nodes_to_remove = {}
          /\ LoopSteps = {}

\* The loop of lines 179-196 is running.
LoopRunning == pc \in {"drain", "delete", "stop"}

\* Drain, then delete, was attempted for every node of the removal set.
AllAttempted ==
    \A n \in ListedNames \ DeclaredNames :
        \E i, j \in LoopSteps :
            /\ i < j
            /\ trace[i].op = "drain" /\ trace[i].node = n
            /\ trace[j].op = "delete" /\ trace[j].node = n

\* C7: once the reconciler loop has started, in a dry run or a confirmed
\* real one, every node of the removal set eventually has its drain and its
\* delete attempted, whatever the steps answer: a failed drain does not keep
\* the node from delete, a failed drain or delete does not keep the later
\* nodes from being processed.
C7_EveryNodeDrainedAndDeleted == LoopRunning ~> (pc = "exit" /\ AllAttempted)

\* The drain of a node failed; the node was deleted all the same and a later
\* node was drained.
C7_Witness ==
    /\ pc = "exit"
    /\ first_failure \in LoopSteps
    /\ trace[first_failure].op = "drain"
    /\ trace[first_failure + 1].op = "delete"
    /\ trace[first_failure + 1].node = trace[first_failure].node
    /\ \E j \in LoopSteps :
          /\ j > first_failure
          /\ trace[j].op = "drain"
          /\ trace[j].node # trace[first_failure].node

\* "nuc" followed by a numeric suffix: one decimal digit or more.
RECURSIVE AllDigits(_)
AllDigits(s) ==
    s = "" \/ (Head(s) \in {"0", "1", "2", "3", "4", "5", "6", "7", "8", "9"}
                 /\ AllDigits(Tail(s)))
HasNumericSuffix(n) ==
    /\ Len(n) > 3
    /\ SubSeq(n, 1, 3) = "nuc"
    /\ AllDigits(SubSeq(n, 4, Len(n)))
SuffixNumber(n) == DigitsValue(SubSeq(n, 4, Len(n)), 0)

\* C8: a node of the removal set gets the address "192.168.1." followed by
\* 140 + n exactly when its name is "nuc" followed by a numeric suffix n;
\* any other node gets no address, no remote command is issued for it, and
\* it is drained and deleted all the same.
C8_AddressOnlyForNucNumber ==
    plan # <<>> =>
        \A n \in nodes_to_remove :
            /\ (n \in DOMAIN node_ips) <=> HasNumericSuffix(n)
            /\ (n \in DOMAIN node_ips /\ HasNumericSuffix(n)) =>
                  node_ips[n] = "192.168.1." \o PyStr(140 + SuffixNumber(n))
            /\ n \notin DOMAIN node_ips =>
                  /\ \A i \in LoopSteps : trace[i].node = n => trace[i].op # "ssh"
                  /\ "next_steps" \in printed =>
                        /\ \E i \in LoopSteps : trace[i].op = "drain" /\ trace[i].node = n
                        /\ \E i \in LoopSteps : trace[i].op = "delete" /\ trace[i].node = n

\* The remote sequence: stop the agent, disable it, remove the token file.
RemoteSequence ==
    << "sudo systemctl stop k3s-agent",
       "sudo systemctl disable k3s-agent",
       "sudo rm -f /etc/rancher/k3s/agent-token" >>

\* C9: in a real run the remote stop of a removed node with an address runs
\* exactly three commands, stop, disable, remove the token file, in that
\* order, each once, whatever the commands before it answered: at any time
\* the commands run for a node are the first m of the three, right after its
\* delete, and m < 3 only while the node's remote stop is at command m + 1.
C9_ThreeRemoteCommandsEach ==
    ~dry_run =>
        \A n \in nodes_to_remove :
            LET S == {i \in LoopSteps : trace[i].op = "ssh" /\ trace[i].node = n}
                m == Cardinality(S)
            IN  /\ S # {} =>
                      \E b \in LoopSteps :
                          /\ trace[b].op = "delete" /\ trace[b].node = n
                          /\ m <= 3
                          /\ S = {b + k : k \in 1..m}
                          /\ \A k \in 1..m :
                                /\ trace[b + k].cmd = RemoteSequence[k]
                                /\ trace[b + k].exec
                                /\ trace[b + k].ip = node_ips[n]
                          /\ m < 3 => pc = "stop" /\ node_name = n /\ cmd_idx = m + 1
                /\ ("success_summary" \in printed /\ n \in DOMAIN node_ips) => m = 3
                /\ (n \in DOMAIN node_ips /\ (\E i \in LoopSteps : trace[i].op = "delete" /\ trace[i].node = n)
                      /\ ~(pc = "stop" /\ node_name = n)) => m = 3

\* The first remote command of a node failed and the other two were run.
C9_Witness ==
    /\ ~dry_run
    /\ pc = "exit"
    /\ first_failure \in LoopSteps
    /\ trace[first_failure].op = "ssh"
    /\ trace[first_failure].cmd = RemoteSequence[1]
    /\ trace[first_failure + 2].op = "ssh"
    /\ trace[first_failure + 2].cmd = RemoteSequence[3]
    /\ trace[first_failure + 2].node = trace[first_failure].node

\* The step ends the processing of its node.
LastOfNode(e) == e.op = "skip" \/ (e.op = "ssh" /\ e.cmd = RemoteSequence[3])

\* C10: the nodes of the removal set are processed one at a time in
\* ascending order of their names, each by drain, then delete, then the
\* remote stop or its skip; a node is begun only when every node before it
\* is done, whatever the steps answered.
C10_OneNodeAtATimeInOrder ==
    \A i \in LoopSteps :
        LET e == trace[i]
            p == trace[i - 1]
        IN  /\ e.op = "drain" =>
                  /\ e.node \in nodes_to_remove
                  /\ {trace[j].node : j \in {k \in LoopSteps : k < i}}
                        = {n \in nodes_to_remove : StrLess(n, e.node)}
                  /\ p.op = "get_nodes" \/ LastOfNode(p)
            /\ e.op = "delete" => p.op = "drain" /\ p.node = e.node
            /\ e.op = "skip" => p.op = "delete" /\ p.node = e.node
            /\ e.op = "ssh" =>
                  /\ p.node = e.node
                  /\ \/ e.cmd = RemoteSequence[1] /\ p.op = "delete"
                     \/ \E k \in 2..3 : /\ e.cmd = RemoteSequence[k]
                                        /\ p.op = "ssh"
                                        /\ p.cmd = RemoteSequence[k - 1]

\* The cluster lists two nodes in descending order, both are removed, the
\* smaller first although one of its steps failed.
C10_Witness ==
    /\ pc = "exit"
    /\ "success_summary" \in printed
    /\ Len(kube.items) = 2
    /\ StrLess(kube.items[2], kube.items[1])
    /\ nodes_to_remove = {kube.items[1], kube.items[2]}
    /\ first_failure \in LoopSteps
    /\ trace[first_failure].node = kube.items[2]

====
